---------------------------- MODULE Spec2Model ----------------------------
(***************************************************************************)
(* CORVUS_py: per-pixel temporal modelling of satellite time series.       *)
(*                                                                         *)
(*   get_window_fit        (phenology_extraction.py)  windowed regression, *)
(*                         model selection by sample count, rejection of   *)
(*                         implausible predictions.                        *)
(*   cloud_temporal_filter (cloud_temporal_filter.py) masks observations   *)
(*                         that deviate from the line through their        *)
(*                         nearest valid neighbours.                       *)
(*   landsat_cloud_mask_*, get_temp_difference (basic_processing.py)       *)
(*                         QA_PIXEL cloud masks and the air temperature    *)
(*                         attached to a scene.                            *)
(*                                                                         *)
(* Everything is modelled for ONE pixel and ONE band: Earth Engine applies *)
(* each image operation independently per pixel.                           *)
(*                                                                         *)
(* Numbers in get_window_fit.  Band values are exact: a pixel value is a   *)
(* record                                                                  *)
(*      [mask, a, h]    meaning    a + (h/2) * stdev      (mask = 1)       *)
(* where stdev is the standard deviation of the current window (an         *)
(* irrational number in general, so it is kept symbolic and compared       *)
(* exactly through its square).  mask = 0 is a masked pixel.  Observed     *)
(* values are even integers, so that the median of an even number of them  *)
(* is an integer too.                                                      *)
(***************************************************************************)
EXTENDS Integers, Sequences, FiniteSets, TLC

VARIABLES
    \* ---- get_window_fit ----
    window,                 \* observations selected by the window filter (l.73-76)
    min_value, max_value,   \* physical bounds given by the caller
    target_time,            \* time at which the prediction is made
    quadratic_coeffs,       \* output of the quadratic regression (or NoFit)
    linear_coeffs,          \* output of the linear regression (or NoFit)
    model_prediction,       \* model_prediction_filtered after l.135 (before rejection)
    record,                 \* the image returned by get_window_fit
    pc_fit,                 \* "window" while the window is gathered, then "done"
    \* ---- cloud_temporal_filter ----
    pheno_in,               \* input scenes, ordered by system:time_start
    num_padding_scenes,
    threshold_low, threshold_high,
    previous_unmasked_scene,   \* trimmed list of previous neighbours (l.89)
    next_unmasked_scene,       \* trimmed list of next neighbours (l.100)
    output_collection,         \* list of records returned by the filter
    pc_filter,              \* "series" while scenes arrive, then "done"
    \* ---- fit_phenology and the window filter of get_window_fit ----
    input_collection,       \* the images given by the caller, in time order
    target_date,            \* target of the last get_window_fit call
    advance_window_width, following_window_width,
    wrap_data,
    selected,               \* the window of l.73-76, before l.80
    num_time_steps, min_date, max_date,
    target_dates,           \* l.24
    phenology,              \* the collection returned by fit_phenology
    pc_pheno,               \* "collect" while images arrive, then "done"
    \* ---- basic_processing ----
    landsat_image,          \* the scene (one pixel) given by the caller
    climatology,            \* the climate collection, in its own order
    mask_mask,              \* argument of the cloud mask
    masked_image,           \* image returned by a cloud mask
    new_img,                \* image returned by get_temp_difference
    pc_landsat              \* "image", then the name of the function called

fit_vars == <<window, min_value, max_value, target_time, quadratic_coeffs,
              linear_coeffs, model_prediction, record, pc_fit>>
filter_vars == <<pheno_in, num_padding_scenes, threshold_low, threshold_high,
                 previous_unmasked_scene, next_unmasked_scene,
                 output_collection, pc_filter>>
pheno_vars == <<input_collection, target_date, advance_window_width,
                following_window_width, wrap_data, selected, num_time_steps,
                min_date, max_date, target_dates, phenology, pc_pheno>>
landsat_vars == <<landsat_image, climatology, mask_mask, masked_image,
                  new_img, pc_landsat>>
vars == <<fit_vars, filter_vars, pheno_vars, landsat_vars>>

(***************************************************************************)
(* Bounds of the model.                                                    *)
(***************************************************************************)
MaxWindow == 6      \* observations in a window (the quadratic tier needs 6)
MaxScenes == 3      \* scenes in a series given to the cloud filter

(***************************************************************************)
(* Generic helpers.                                                        *)
(***************************************************************************)
Range(s) == {s[i] : i \in DOMAIN s}

RECURSIVE SumSeq(_)
SumSeq(s) == IF s = <<>> THEN 0 ELSE Head(s) + SumSeq(Tail(s))

(***************************************************************************)
(* Pixel values and Earth Engine's per-pixel image arithmetic: the result  *)
(* of a binary operation is masked where either input is masked.           *)
(***************************************************************************)
Masked == [mask |-> 0, a |-> 0, h |-> 0]
Const(x) == [mask |-> 1, a |-> x, h |-> 0]
Flag(b) == Const(IF b THEN 1 ELSE 0)

\* ee.Image.unmask(): masked pixels become 0
Unmask(x) == IF x.mask = 0 THEN Const(0) ELSE x

\* ee.Image.add
Add(x, y) ==
    IF x.mask = 0 \/ y.mask = 0 THEN Masked
    ELSE [mask |-> 1, a |-> x.a + y.a, h |-> x.h + y.h]

\* ee.Image.subtract
Subtract(x, y) ==
    IF x.mask = 0 \/ y.mask = 0 THEN Masked
    ELSE [mask |-> 1, a |-> x.a - y.a, h |-> x.h - y.h]

\* ee.Image.multiply; the code only ever multiplies by a plain number
\* (a 0/1 flag, a coefficient, 1.5), so one factor has h = 0.
Multiply(x, y) ==
    IF x.mask = 0 \/ y.mask = 0 THEN Masked
    ELSE [mask |-> 1, a |-> x.a * y.a, h |-> x.h * y.a + x.a * y.h]

\* stdev.multiply(ee.Number(1.5)): h counts half standard deviations
MultiplyThreeHalves(x) ==
    IF x.mask = 0 THEN Masked
    ELSE [mask |-> 1, a |-> (3 * x.a) \div 2, h |-> (3 * x.h) \div 2]

(***************************************************************************)
(* Reducers over a collection (ee.ImageCollection.count/median/min/max/    *)
(* reduce): masked inputs are skipped; no input gives a masked output      *)
(* (count gives 0).                                                        *)
(***************************************************************************)
\* the valid (unmasked) target-band values of a collection, as a sequence
ValidValues(w) ==
    LET RECURSIVE Pick(_)
        Pick(s) == IF s = <<>> THEN <<>>
                   ELSE IF Head(s).valid THEN <<Head(s).value>> \o Pick(Tail(s))
                   ELSE Pick(Tail(s))
    IN Pick(w)

Count(w) == Const(Len(ValidValues(w)))

\* k-th smallest element (k = 1..Len) of a non-empty sequence of numbers
KthSmallest(v, k) ==
    CHOOSE x \in Range(v) :
        /\ Cardinality({i \in DOMAIN v : v[i] < x}) < k
        /\ Cardinality({i \in DOMAIN v : v[i] <= x}) >= k

\* median of the valid values: the middle one, or the mean of the two middle
Median(w) ==
    LET v == ValidValues(w)
        n == Len(v)
    IN IF n = 0 THEN Masked
       ELSE IF n % 2 = 1 THEN Const(KthSmallest(v, (n + 1) \div 2))
       ELSE Const((KthSmallest(v, n \div 2) + KthSmallest(v, n \div 2 + 1)) \div 2)

Min(w) ==
    LET v == ValidValues(w) IN
    IF v = <<>> THEN Masked ELSE Const(KthSmallest(v, 1))

Max(w) ==
    LET v == ValidValues(w) IN
    IF v = <<>> THEN Masked ELSE Const(KthSmallest(v, Len(v)))

\* ee.Reducer.stdDev(): one whole standard deviation is h = 2
StdDev(w) ==
    IF ValidValues(w) = <<>> THEN Masked ELSE [mask |-> 1, a |-> 0, h |-> 2]

\* With n valid values of sum S and sum of squares Q, the population
\* standard deviation is sqrt(n*Q - S*S) / n:  SpreadD is D = n*Q - S*S.
SpreadD(w) ==
    LET v == ValidValues(w)
        S == SumSeq(v)
        Q == SumSeq([i \in DOMAIN v |-> v[i] * v[i]])
    IN Len(v) * Q - S * S

\* every reduction of the window the fit uses, computed once
Reduce(w) ==
    [count |-> Count(w), median |-> Median(w), min |-> Min(w), max |-> Max(w),
     stdev |-> StdDev(w), size |-> Len(w), D |-> SpreadD(w)]

(***************************************************************************)
(* Exact comparison of pixel values.  A value a + (h/2)*stdev of a window  *)
(* with reductions r has the sign of  2*n*a + h*sqrt(D).                   *)
(***************************************************************************)
Sgn(x) == IF x > 0 THEN 1 ELSE IF x < 0 THEN -1 ELSE 0

\* sign of A + B * sqrt(D), D >= 0
SignRoot(A, B, D) ==
    IF D = 0 \/ B = 0 THEN Sgn(A)
    ELSE IF A = 0 THEN Sgn(B)
    ELSE IF Sgn(A) = Sgn(B) THEN Sgn(A)
    ELSE IF A * A > B * B * D THEN Sgn(A)
    ELSE IF A * A < B * B * D THEN Sgn(B)
    ELSE 0

\* sign of the unmasked pixel value x
SignOf(x, r) ==
    IF r.count.a = 0 THEN Sgn(x.a) ELSE SignRoot(2 * r.count.a * x.a, x.h, r.D)

\* ee.Image.gt / ee.Image.lt: 1 or 0, masked where an input is masked
Gt(x, y, r) ==
    IF x.mask = 0 \/ y.mask = 0 THEN Masked
    ELSE Flag(SignOf(Subtract(x, y), r) > 0)

Lt(x, y, r) ==
    IF x.mask = 0 \/ y.mask = 0 THEN Masked
    ELSE Flag(SignOf(Subtract(x, y), r) < 0)

\* ee.Image.eq(0) on a flag image
EqZero(x) == IF x.mask = 0 THEN Masked ELSE Flag(x.a = 0 /\ x.h = 0)

\* equality of two pixel values as real numbers (both masked, or both
\* unmasked and equal)
SameValue(x, y, r) ==
    /\ x.mask = y.mask
    /\ x.mask = 1 => SignOf(Subtract(x, y), r) = 0

(***************************************************************************)
(* get_window_fit: the window and the regressions.                         *)
(***************************************************************************)
Values == {0, 2, 4}             \* values of the target band
TargetTimes == {1, 2}
BoundChoices == {<<-2, 2>>, <<0, 4>>}      \* <<min_value, max_value>>

\* an observation of one pixel: the value under a masked pixel is not
\* observable, so it is written 0
Observations ==
    [value : Values, valid : {TRUE}] \cup [value : {0}, valid : {FALSE}]

\* the image merged into every window: 0 and masked everywhere
Sentinel == [value |-> 0, valid |-> FALSE]

\* window.merge(...) of l.80: the sentinel is appended to the window
WithSentinel(w) == Append(w, Sentinel)

\* ee.Reducer.robustLinearRegression is Earth Engine's: its coefficients
\* are drawn from a small set.  It returns null when the system is
\* underdetermined (fewer inputs than numX).  With enough inputs it may
\* still have no solution (a rank-deficient design: the 'time' band of the
\* inputs, which this model does not follow, takes too few distinct
\* values); what it returns then is not fixed by this repository: either
\* null or some coefficients.
NoFit == <<>>
QuadraticCoeffs == {<<1, 0, 0>>, <<-4, 0, 1>>, <<2, 1, 1>>}
LinearCoeffs == {<<-1, 0>>, <<-5, 1>>, <<3, 2>>, <<1, 1>>}

RobustLinearRegression(w, numX, coeffs) ==
    IF Len(ValidValues(w)) < numX THEN {NoFit} ELSE coeffs \cup {NoFit}

\* coefficients.arrayFlatten(...).select(band i): masked when there is no fit
CoefficientBand(coeffs, i) ==
    IF coeffs = NoFit THEN Masked ELSE Const(coeffs[i])

QuadraticPrediction(qc, t) ==
    Add(Add(CoefficientBand(qc, 1),
            Multiply(CoefficientBand(qc, 2), Const(t))),
        Multiply(Multiply(CoefficientBand(qc, 3), Const(t)), Const(t)))

LinearPrediction(lc, t) ==
    Add(CoefficientBand(lc, 1), Multiply(CoefficientBand(lc, 2), Const(t)))

(***************************************************************************)
(* Choose fit by number of scenes (l.121-135).  r is Reduce(window).       *)
(***************************************************************************)
TooLittleDataForLinearMask(r) == Unmask(Lt(r.count, Const(3), r))

\* variant: the quadratic fit needs more than 6 scenes
TooLittleDataForQuadraticMask_MoreThanSix(r) == Unmask(Lt(r.count, Const(7), r))

TooLittleDataForQuadraticMask(r) == Unmask(Lt(r.count, Const(6), r))

\* model_prediction_filtered after l.132-133
QuadraticOrLinear(qp, lp, r) ==
    Add(Unmask(Multiply(qp, EqZero(TooLittleDataForQuadraticMask(r)))),
        Multiply(TooLittleDataForQuadraticMask(r), lp))

\* model_prediction_filtered after l.134-135
ModelPrediction(qp, lp, r) ==
    Add(Unmask(Multiply(QuadraticOrLinear(qp, lp, r),
                        EqZero(TooLittleDataForLinearMask(r)))),
        Multiply(TooLittleDataForLinearMask(r), r.median))

(***************************************************************************)
(* Reject implausible and statistically unlikely values (l.137-162).       *)
(***************************************************************************)
TooHighMask(mp, maxv, r) == Unmask(Gt(mp, Const(maxv), r))

\* variant: flags the predictions above min_value
TooLowMask_Above(mp, minv, r) == Unmask(Gt(mp, Const(minv), r))

TooLowMask(mp, minv, r) == Unmask(Lt(mp, Const(minv), r))

\* variant: a threshold of 3 standard deviations
StatisticalOutlierHigh_ThreeStdDev(mp, r) ==
    Unmask(Gt(mp, Add(r.median, Add(MultiplyThreeHalves(r.stdev),
                                    MultiplyThreeHalves(r.stdev))), r))

StatisticalOutlierHigh(mp, r) ==
    Unmask(Gt(mp, Add(r.median, MultiplyThreeHalves(r.stdev)), r))

StatisticalOutlierLow(mp, r) ==
    Unmask(Lt(mp, Subtract(r.median, MultiplyThreeHalves(r.stdev)), r))

\* variant: the physical bound does not flag the prediction
BadDataHigh_StatisticalOnly(mp, maxv, r) ==
    Gt(StatisticalOutlierHigh(mp, r), Const(0), r)

BadDataHigh(mp, maxv, r) ==
    Gt(Add(TooHighMask(mp, maxv, r), StatisticalOutlierHigh(mp, r)), Const(0), r)

BadDataLow(mp, minv, r) ==
    Gt(Add(TooLowMask(mp, minv, r), StatisticalOutlierLow(mp, r)), Const(0), r)

\* l.161:  mp.multiply(bad_high.eq(0)).unmask()
\*             .add( bad_high.multiply(median).add(stdev) )
ReplaceHigh(mp, bad_high, r) ==
    Add(Unmask(Multiply(mp, EqZero(bad_high))),
        Add(Multiply(bad_high, r.median), r.stdev))

\* variant: the low replacement adds the standard deviation
ReplaceLow_AddsStdDev(x, bad_low, r) ==
    Add(Unmask(Multiply(x, EqZero(bad_low))),
        Add(Multiply(bad_low, r.median), r.stdev))

\* variant: the low replacement does not subtract the standard deviation
ReplaceLow_NoStdDev(x, bad_low, r) ==
    Add(Unmask(Multiply(x, EqZero(bad_low))), Multiply(bad_low, r.median))

\* l.162, applied to the result x of l.161:
\*         x.multiply(bad_low.eq(0)).unmask()
\*             .add( bad_low.multiply(median).subtract(stdev) )
ReplaceLow(x, bad_low, r) ==
    Add(Unmask(Multiply(x, EqZero(bad_low))),
        Subtract(Multiply(bad_low, r.median), r.stdev))

PredictionFiltered(mp, minv, maxv, r) ==
    ReplaceLow(ReplaceHigh(mp, BadDataHigh(mp, maxv, r), r),
               BadDataLow(mp, minv, r), r)

\* the image returned (l.168-178); r reduces the window with its sentinel.
\* window_size counts the images after unmask(): all of them.
WindowFitRecord(r, mp, qc, lc, t, minv, maxv) ==
    [median |-> r.median,
     time |-> Const(t),
     prediction_filtered |-> PredictionFiltered(mp, minv, maxv, r),
     clear_images |-> r.count,
     window_size |-> Const(r.size),
     min |-> r.min,
     max |-> r.max,
     stdev |-> r.stdev,
     linear_coef |-> CoefficientBand(lc, 1),
     quadratic_coef |-> CoefficientBand(qc, 1)]

NoRecord ==
    [median |-> Masked, time |-> Masked, prediction_filtered |-> Masked,
     clear_images |-> Masked, window_size |-> Masked, min |-> Masked,
     max |-> Masked, stdev |-> Masked, linear_coef |-> Masked,
     quadratic_coef |-> Masked]

(***************************************************************************)
(* Actions of get_window_fit.                                              *)
(***************************************************************************)
\* order in which a window lists its observations (a collection is a bag:
\* no reducer depends on the order)
ObsKey(o) == IF o.valid THEN o.value + 1 ELSE 0

\* the window filter selects one more observation (l.54-76)
WindowSelect(o) ==
    /\ pc_fit = "window"
    /\ Len(window) < MaxWindow
    /\ IF window = <<>> THEN TRUE ELSE ObsKey(window[Len(window)]) <= ObsKey(o)
    /\ window' = Append(window, o)
    /\ UNCHANGED <<min_value, max_value, target_time, quadratic_coeffs,
                   linear_coeffs, model_prediction, record, pc_fit>>
    /\ UNCHANGED filter_vars
    /\ UNCHANGED pheno_vars
    /\ UNCHANGED landsat_vars

\* the rest of get_window_fit (l.78-178) on the selected window
GetWindowFit ==
    /\ pc_fit = "window"
    /\ \E t \in TargetTimes :
       \E qc \in RobustLinearRegression(WithSentinel(window), 3, QuadraticCoeffs) :
       \E lc \in RobustLinearRegression(WithSentinel(window), 2, LinearCoeffs) :
          LET r == Reduce(WithSentinel(window))
              mp == ModelPrediction(QuadraticPrediction(qc, t),
                                    LinearPrediction(lc, t), r)
          IN /\ target_time' = t
             /\ quadratic_coeffs' = qc
             /\ linear_coeffs' = lc
             /\ model_prediction' = mp
             /\ record' = WindowFitRecord(r, mp, qc, lc, t, min_value, max_value)
    /\ pc_fit' = "done"
    /\ UNCHANGED <<window, min_value, max_value>>
    /\ UNCHANGED filter_vars
    /\ UNCHANGED pheno_vars
    /\ UNCHANGED landsat_vars

NoImage == [error |-> TRUE]

LandsatIdle ==
    /\ landsat_image = NoImage
    /\ climatology = <<>>
    /\ mask_mask = 0
    /\ masked_image = NoImage
    /\ new_img = NoImage
    /\ pc_landsat = "off"

PhenoIdle ==
    /\ input_collection = <<>>
    /\ target_date = 0
    /\ advance_window_width = 0 /\ following_window_width = 0
    /\ wrap_data = FALSE
    /\ selected = <<>>
    /\ num_time_steps = 0 /\ min_date = 0 /\ max_date = 0
    /\ target_dates = <<>>
    /\ phenology = <<>>
    /\ pc_pheno = "off"

FilterIdle ==
    /\ pheno_in = <<>>
    /\ num_padding_scenes = 0
    /\ threshold_low = 0 /\ threshold_high = 0
    /\ previous_unmasked_scene = <<>>
    /\ next_unmasked_scene = <<>>
    /\ output_collection = <<>>
    /\ pc_filter = "off"

InitFit ==
    /\ window = <<>>
    /\ \E b \in BoundChoices : min_value = b[1] /\ max_value = b[2]
    /\ target_time = 0
    /\ quadratic_coeffs = NoFit /\ linear_coeffs = NoFit
    /\ model_prediction = Masked
    /\ record = NoRecord
    /\ pc_fit = "window"
    /\ FilterIdle
    /\ PhenoIdle
    /\ LandsatIdle

NextFit ==
    \/ \E o \in Observations : WindowSelect(o)
    \/ GetWindowFit

SpecFit == InitFit /\ [][NextFit]_vars

(***************************************************************************)
(* cloud_temporal_filter.                                                  *)
(*                                                                         *)
(* A scene of one pixel is [time_start, DOY, value, valid]: time_start in  *)
(* whole days since 1970-01-01 (the code's milliseconds, 31536000000 ms    *)
(* being 365 days), DOY in QUARTER days (add_doy subtracts 365.25 days per *)
(* year), value the target band (0 under a masked pixel).  The residual    *)
(* and the expected value are exact fractions [mask, num, den], den > 0.   *)
(***************************************************************************)
PaddingShift == 365         \* days added to / subtracted from a folded scene

\* collection_building.add_doy: days since 1970 minus 365.25 days for every
\* whole year elapsed (a year of ee.Date.difference is 365.25 days long for
\* the dates used here), in quarter days
AddDoy(day) == 4 * day - 1461 * ((4 * day) \div 1461)

\* acquisition days of the scenes; day 1461 has the DOY of day 0
SceneDays == {0, 5, 10, 360, 372, 1461}
SceneValues == {10, 12}                 \* values of the target band
ThresholdChoices == {<<-1, 1>>, <<-20, 20>>, <<0, 5>>}   \* <<low, high>>

Scene(day, v, ok) ==
    [time_start |-> day, DOY |-> AddDoy(day), value |-> v, valid |-> ok]

\* ---- ee.List ----
\* ee.List.get: 0-based, a negative index counts from the end; reading
\* outside the list is an error
ListError == [error |-> TRUE]
ListGet(l, i) ==
    IF i >= 0 /\ i < Len(l) THEN l[i + 1]
    ELSE IF i < 0 /\ -i <= Len(l) THEN l[Len(l) + i + 1]
    ELSE ListError

\* ee.List.sequence(start, end): start, start+1, ..., end
ListSequence(start, end) == [i \in 1 .. (end - start + 1) |-> start + i - 1]

\* ---- ee.ImageCollection ----
\* sort('system:time_start', ascending): an insertion sort (no two scenes
\* of a collection share a time_start here, so the order is determined)
RECURSIVE InsertByTime(_, _, _)
InsertByTime(img, sorted, ascending) ==
    IF sorted = <<>> THEN <<img>>
    ELSE IF (ascending /\ img.time_start < Head(sorted).time_start)
            \/ (~ascending /\ img.time_start > Head(sorted).time_start)
         THEN <<img>> \o sorted
         ELSE <<Head(sorted)>> \o InsertByTime(img, Tail(sorted), ascending)

RECURSIVE SortInto(_, _, _)
SortInto(c, sorted, ascending) ==
    IF c = <<>> THEN sorted
    ELSE SortInto(Tail(c), InsertByTime(Head(c), sorted, ascending), ascending)

SortByTime(c, ascending) == SortInto(c, <<>>, ascending)

\* limit(n, 'system:time_start', ascending): the first n of the sorted scenes
Limit(c, n, ascending) ==
    SubSeq(SortByTime(c, ascending), 1, IF n < Len(c) THEN n ELSE Len(c))

\* ---- buffer the time series (l.29-59) ----
buffer_start(img) ==
    [img EXCEPT !.DOY = @ + 4 * PaddingShift,
                !.time_start = @ + PaddingShift]

buffer_end(img) ==
    [img EXCEPT !.DOY = @ - 4 * PaddingShift,
                !.time_start = @ - PaddingShift]

first_few_scenes(pin, npad) ==
    LET few == Limit(pin, npad, TRUE)
    IN [i \in DOMAIN few |-> buffer_start(few[i])]

last_few_scenes(pin, npad) ==
    LET few == Limit(pin, npad, FALSE)
    IN [i \in DOMAIN few |-> buffer_end(few[i])]

pheno_buffered(pin, npad) ==
    SortByTime(last_few_scenes(pin, npad) \o pin \o first_few_scenes(pin, npad),
               TRUE)

\* ---- previous and next unmasked scene of every scene (l.61-100) ----
\* the fillers the two scans start from: value 0, DOY 0 and DOY 365
first == <<[value |-> 0, DOY |-> 0]>>
last == <<[value |-> 0, DOY |-> 4 * PaddingShift]>>

\* image.unmask * current_unmasked + previous.unmask * current_unmasked.Not()
get_previous_unmasked_scene(image, running_list) ==
    LET previous == ListGet(running_list, -1)
        current_unmasked == IF image.valid THEN 1 ELSE 0
    IN Append(running_list,
              [value |-> image.value * current_unmasked
                            + previous.value * (1 - current_unmasked),
               DOY |-> image.DOY * current_unmasked
                            + previous.DOY * (1 - current_unmasked)])

\* iterate(get_previous_unmasked_scene, first): a left fold over c
RECURSIVE Iterate(_, _)
Iterate(c, running_list) ==
    IF c = <<>> THEN running_list
    ELSE Iterate(Tail(c), get_previous_unmasked_scene(Head(c), running_list))

\* l.79, before trimming; buffered is pheno_buffered
previous_scan(buffered) == Iterate(buffered, first)

\* l.96, before trimming
next_scan(buffered) == Iterate(SortByTime(buffered, FALSE), last)

\* l.82-85; scan is the untrimmed previous_unmasked_scene
indices_to_retain(scan, npad) ==
    ListSequence(npad + 1, Len(scan) - npad - 1)

\* variant: reads the scan at the scene's own index, without the offset
get_retained_previous_image_NoOffset(scan, ind) == ListGet(scan, ind)

\* l.87-88
get_retained_previous_image(scan, ind) == ListGet(scan, ind - 1)

\* variant: reads the backward scan without the offset
get_retained_next_image_NoOffset(scan, ind) == ListGet(scan, ind * (-1))

\* l.98-99
get_retained_next_image(scan, ind) == ListGet(scan, ind * (-1) - 1)

\* l.89
PreviousUnmaskedScene(scan, keep) ==
    [i \in DOMAIN keep |-> get_retained_previous_image(scan, keep[i])]

\* l.100
NextUnmaskedScene(scan, keep) ==
    [i \in DOMAIN keep |-> get_retained_next_image(scan, keep[i])]

\* ---- the target images (l.105-113): a filler, then the sorted scenes ----
first_input == [time_start |-> 0, DOY |-> 0, value |-> 0, valid |-> TRUE]

\* variant: the list of targets without the leading filler
pheno_in_list_NoFiller(pin) == SortByTime(pin, TRUE)

pheno_in_list(pin) == <<first_input>> \o SortByTime(pin, TRUE)

\* ---- check_value (l.116-141) ----
\* a fraction with a positive denominator
Fraction(num, den) ==
    IF den < 0 THEN [num |-> -num, den |-> -den] ELSE [num |-> num, den |-> den]

\* ee.Image.divide: 0 where the divisor is 0
Divide(x, y) == IF y = 0 THEN Fraction(0, 1) ELSE Fraction(x, y)

\* integer threshold < fraction, fraction < integer threshold
LessThanFraction(t, f) == t * f.den < f.num
FractionLessThan(f, t) == f.num < t * f.den

within_low_threshold(lo, difference) == LessThanFraction(lo, difference)

within_high_threshold(hi, difference) == FractionLessThan(difference, hi)

NoBand == [mask |-> 0, num |-> 0, den |-> 1]

\* variant: the mask is replaced by the test instead of being narrowed by it
UpdateMask_Replaces(valid, allowed) == allowed

\* l.135, ee.Image.updateMask: valid only where it was valid and the mask
\* image is non-zero
UpdateMask(valid, allowed) == valid /\ allowed
Band(f) == [mask |-> 1, num |-> f.num, den |-> f.den]

check_value(ind, previous_list, next_list, targets, lo, hi) ==
    LET previous_scene == ListGet(previous_list, ind)
        next_scene == ListGet(next_list, ind)
        current_scene == ListGet(targets, ind + 1)
    IN IF previous_scene = ListError \/ next_scene = ListError
          \/ current_scene = ListError
       THEN ListError
       ELSE
        LET neighbor_change ==
                [value |-> next_scene.value - previous_scene.value,
                 DOY |-> next_scene.DOY - previous_scene.DOY]
            slope == Divide(neighbor_change.value, neighbor_change.DOY)
            expected_value ==
                Fraction((current_scene.DOY - previous_scene.DOY) * slope.num
                            + previous_scene.value * slope.den,
                         slope.den)
            difference ==
                Fraction(current_scene.value * expected_value.den
                            - expected_value.num,
                         expected_value.den)
            allowed == within_low_threshold(lo, difference)
                         /\ within_high_threshold(hi, difference)
        IN [error |-> FALSE,
            time_start |-> current_scene.time_start,
            DOY |-> current_scene.DOY,
            value |-> current_scene.value,
            valid |-> UpdateMask(current_scene.valid, allowed),
            reg_diff |-> IF current_scene.valid THEN Band(difference) ELSE NoBand,
            reg_expected |-> IF current_scene.valid THEN Band(expected_value)
                             ELSE NoBand,
            previous |-> previous_scene.value,
            previous_DOY |-> previous_scene.DOY,
            next |-> next_scene.value,
            next_DOY |-> next_scene.DOY]

target_sequence(pin) == ListSequence(0, Len(pin) - 1)

(***************************************************************************)
(* Actions of cloud_temporal_filter.                                       *)
(***************************************************************************)
\* the provider delivers one more scene, later than those it delivered
AddScene(day, v, ok) ==
    /\ pc_filter = "series"
    /\ Len(pheno_in) < MaxScenes
    /\ IF pheno_in = <<>> THEN TRUE
       ELSE pheno_in[Len(pheno_in)].time_start < day
    /\ pheno_in' = Append(pheno_in, Scene(day, v, ok))
    /\ UNCHANGED <<num_padding_scenes, threshold_low, threshold_high,
                   previous_unmasked_scene, next_unmasked_scene,
                   output_collection, pc_filter>>
    /\ UNCHANGED fit_vars
    /\ UNCHANGED pheno_vars
    /\ UNCHANGED landsat_vars

\* cloud_temporal_filter(pheno_in, band_name, lo, hi, npad)
CloudTemporalFilter(lo, hi, npad) ==
    /\ pc_filter = "series"
    /\ pheno_in # <<>>
    /\ LET buffered == pheno_buffered(pheno_in, npad)
           scan == previous_scan(buffered)
           keep == indices_to_retain(scan, npad)
           previous_list == PreviousUnmaskedScene(scan, keep)
           next_list == NextUnmaskedScene(next_scan(buffered), keep)
           targets == pheno_in_list(pheno_in)
           sequence == target_sequence(pheno_in)
       IN /\ previous_unmasked_scene' = previous_list
          /\ next_unmasked_scene' = next_list
          /\ output_collection' =
                [i \in DOMAIN sequence |->
                    check_value(sequence[i], previous_list, next_list,
                                targets, lo, hi)]
    /\ num_padding_scenes' = npad
    /\ threshold_low' = lo
    /\ threshold_high' = hi
    /\ pc_filter' = "done"
    /\ UNCHANGED pheno_in
    /\ UNCHANGED fit_vars
    /\ UNCHANGED pheno_vars
    /\ UNCHANGED landsat_vars

FitIdle ==
    /\ window = <<>>
    /\ min_value = 0 /\ max_value = 0 /\ target_time = 0
    /\ quadratic_coeffs = NoFit /\ linear_coeffs = NoFit
    /\ model_prediction = Masked
    /\ record = NoRecord
    /\ pc_fit = "off"

InitFilter ==
    /\ pheno_in = <<>>
    /\ num_padding_scenes = 0
    /\ threshold_low = 0 /\ threshold_high = 0
    /\ previous_unmasked_scene = <<>>
    /\ next_unmasked_scene = <<>>
    /\ output_collection = <<>>
    /\ pc_filter = "series"
    /\ FitIdle
    /\ PhenoIdle
    /\ LandsatIdle

NextFilter ==
    \/ \E day \in SceneDays, v \in SceneValues : AddScene(day, v, TRUE)
    \/ \E day \in SceneDays : AddScene(day, 0, FALSE)
    \/ \E th \in ThresholdChoices, npad \in 0 .. Len(pheno_in) + 1 :
          CloudTemporalFilter(th[1], th[2], npad)

SpecFilter == InitFilter /\ [][NextFilter]_vars

(***************************************************************************)
(* fit_phenology and the window filter of get_window_fit (l.16-76).        *)
(*                                                                         *)
(* Dates are counted in quarter days from the 1st of January of a year 0;  *)
(* every year of the model is a common year of 365 days.  The 'time' band  *)
(* of an image is its date in years of 365.25 days (add_time), so one unit *)
(* of 'time' is 1461 quarter days, while date.advance(1, 'year') moves a   *)
(* date by one calendar year, 1460 quarter days.                           *)
(***************************************************************************)
QuartersPerDay == 4
CalendarYear == 365 * QuartersPerDay
YearShift == 1461

Days(n) == n * QuartersPerDay

\* an image of the collection: its system:time_start, its 'time' band (the
\* same date, add_time) and the value of the target band at the pixel
Image(t, v) == [time_start |-> t, time |-> t, value |-> v]

ImageTimes == {-20, 10, 20, 60, 720, 1440, 1457}
ImageValues == {2, 4}
WindowTargets == {20, 720, 1440}
WindowWidths == {5, 10}         \* days
MaxImages == 3
MaxSteps == 3
MinDates == {0, 720}
MaxDates == {0, 8, 40, 720, 1440}

\* filterDate(start, end): start inclusive, end exclusive; nothing is
\* selected when end is not later than start
RECURSIVE FilterDate(_, _, _)
FilterDate(c, start, end) ==
    IF c = <<>> THEN <<>>
    ELSE IF start <= Head(c).time_start /\ Head(c).time_start < end
         THEN <<Head(c)>> \o FilterDate(Tail(c), start, end)
         ELSE FilterDate(Tail(c), start, end)

\* l.59-60: the 1st of January and the 31st of December (at 00:00) of the
\* year of the target
target_year_start(target) == CalendarYear * (target \div CalendarYear)
target_year_end(target) == target_year_start(target) + Days(364)

\* l.61-64
addYear(img) == [img EXCEPT !.time = @ + YearShift]
subtractYear(img) == [img EXCEPT !.time = @ - YearShift]

\* l.54-55
advance_window(c, target, advance) ==
    FilterDate(c, target - Days(advance), target)
following_window(c, target, following) ==
    FilterDate(c, target, target + Days(following))

\* l.65-67
following_window_wrapped(c, target, following) ==
    LET w == FilterDate(c, target_year_start(target),
                        target - CalendarYear + Days(following))
    IN [i \in DOMAIN w |-> addYear(w[i])]

\* l.68-70
advance_window_wrapped(c, target, advance) ==
    LET w == FilterDate(c, target + CalendarYear - Days(advance),
                        target_year_end(target))
    IN [i \in DOMAIN w |-> subtractYear(w[i])]

\* l.73-76: the window, before the image of l.80 is merged into it
Window(c, target, advance, following, wrap) ==
    IF wrap
    THEN advance_window(c, target, advance)
            \o following_window(c, target, following)
            \o advance_window_wrapped(c, target, advance)
            \o following_window_wrapped(c, target, following)
    ELSE advance_window(c, target, advance)
            \o following_window(c, target, following)

\* ee.Number.divide: 0 for a division by 0; then floor()
FloorDivide(x, y) == IF y = 0 THEN 0 ELSE x \div y

\* variant: the interval is rounded up to whole days
timing_interval_RoundsUp(mind, maxd, steps) ==
    0 - FloorDivide(mind - maxd, QuartersPerDay * steps)

\* l.21: whole days between two target dates
timing_interval(mind, maxd, steps) ==
    FloorDivide(maxd - mind, QuartersPerDay * steps)

\* l.22-23
sampleDate(index, mind, maxd, steps) ==
    mind + Days(index * timing_interval(mind, maxd, steps))

\* l.24: ee.List.sequence(0, num_time_steps) mapped to dates
TargetDates(mind, maxd, steps) ==
    LET sequence == ListSequence(0, steps)
    IN [i \in DOMAIN sequence |-> sampleDate(sequence[i], mind, maxd, steps)]

\* l.32-33: the image of one target date; of get_window_fit it keeps the
\* date and the window
fitAllDays(c, target, advance, following, wrap) ==
    [target_date |-> target,
     window |-> Window(c, target, advance, following, wrap)]

\* ---- actions ----
\* the caller's collection gets one more image (later than the others)
AddImage(t, v) ==
    /\ pc_pheno = "collect"
    /\ Len(input_collection) < MaxImages
    /\ IF input_collection = <<>> THEN TRUE
       ELSE input_collection[Len(input_collection)].time_start < t
    /\ input_collection' = Append(input_collection, Image(t, v))
    /\ UNCHANGED <<target_date, advance_window_width, following_window_width,
                   wrap_data, selected, num_time_steps, min_date, max_date,
                   target_dates, phenology, pc_pheno>>
    /\ UNCHANGED fit_vars
    /\ UNCHANGED filter_vars
    /\ UNCHANGED landsat_vars

\* get_window_fit, l.48-76
SelectWindow(target, advance, following, wrap) ==
    /\ pc_pheno = "collect"
    /\ target_date' = target
    /\ advance_window_width' = advance
    /\ following_window_width' = following
    /\ wrap_data' = wrap
    /\ selected' = Window(input_collection, target, advance, following, wrap)
    /\ pc_pheno' = "window"
    /\ UNCHANGED <<input_collection, num_time_steps, min_date, max_date,
                   target_dates, phenology>>
    /\ UNCHANGED fit_vars
    /\ UNCHANGED filter_vars
    /\ UNCHANGED landsat_vars

\* fit_phenology, l.16-35
FitPhenology(mind, maxd, steps, width, wrap) ==
    /\ pc_pheno = "collect"
    /\ min_date' = mind /\ max_date' = maxd /\ num_time_steps' = steps
    /\ advance_window_width' = width
    /\ following_window_width' = width
    /\ wrap_data' = wrap
    /\ LET dates == TargetDates(mind, maxd, steps)
       IN /\ target_dates' = dates
          /\ phenology' = [i \in DOMAIN dates |->
                             fitAllDays(input_collection, dates[i], width,
                                        width, wrap)]
    /\ pc_pheno' = "phenology"
    /\ UNCHANGED <<input_collection, target_date, selected>>
    /\ UNCHANGED fit_vars
    /\ UNCHANGED filter_vars
    /\ UNCHANGED landsat_vars

InitPheno ==
    /\ input_collection = <<>>
    /\ target_date = 0
    /\ advance_window_width = 0 /\ following_window_width = 0
    /\ wrap_data = FALSE
    /\ selected = <<>>
    /\ num_time_steps = 0 /\ min_date = 0 /\ max_date = 0
    /\ target_dates = <<>>
    /\ phenology = <<>>
    /\ pc_pheno = "collect"
    /\ FitIdle
    /\ FilterIdle
    /\ LandsatIdle

NextPheno ==
    \/ \E t \in ImageTimes, v \in ImageValues : AddImage(t, v)
    \/ \E target \in WindowTargets, advance \in WindowWidths,
          following \in WindowWidths, wrap \in BOOLEAN :
            SelectWindow(target, advance, following, wrap)
    \/ \E mind \in MinDates, maxd \in MaxDates, steps \in 0 .. MaxSteps,
          wrap \in BOOLEAN :
            FitPhenology(mind, maxd, steps, 10, wrap)

SpecPheno == InitPheno /\ [][NextPheno]_vars

(***************************************************************************)
(* basic_processing.py: cloud masks and air temperature of a scene.        *)
(***************************************************************************)
MaxClimate == 3                 \* climate records in the collection

QAValues == 0 .. 31             \* QA_PIXEL, bits 0 to 4
MaskMasks == {0, 1, 2}
ImageDays == {10}               \* acquisition day of the scene
ClimateDays == {6, 7, 10, 12}   \* days of the climate records
SurfaceTemperatures == {300}    \* band ST, kelvin

\* the air temperature of a day (degrees Celsius), different every day
Tmax(day) == day + 10

\* ---- ee.Image arithmetic on one pixel ----
\* 1 << n
ShiftLeft(x, n) == x * 2 ^ n

\* bitwiseAnd with a single bit
BitwiseAnd(x, bit) == IF (x \div bit) % 2 = 1 THEN bit ELSE 0

\* ee.Image.Or: 1 where either value is non-zero
Or(x, y) == IF x # 0 \/ y # 0 THEN 1 ELSE 0

\* ee.Image.Not: 1 where the value is zero
Not(x) == IF x = 0 THEN 1 ELSE 0

dilated_cloud == ShiftLeft(1, 1)
cirrus == ShiftLeft(1, 2)
cloud == ShiftLeft(1, 3)
cloud_shadow == ShiftLeft(1, 4)

landsat_cloud_mask_457(img, mm) ==
    LET qa == img.QA_PIXEL
        mask == Or(Or(BitwiseAnd(qa, dilated_cloud),
                      BitwiseAnd(qa, cloud_shadow)),
                   BitwiseAnd(qa, cloud)) * mm
    IN [img EXCEPT !.valid = UpdateMask(@, Not(mask) # 0)]

\* variant: the cirrus bit is not looked at
landsat_cloud_mask_89_NoCirrus(img, mm) == landsat_cloud_mask_457(img, mm)

landsat_cloud_mask_89(img, mm) ==
    LET qa == img.QA_PIXEL
        mask == Or(Or(Or(BitwiseAnd(qa, dilated_cloud),
                         BitwiseAnd(qa, cirrus)),
                      BitwiseAnd(qa, cloud_shadow)),
                   BitwiseAnd(qa, cloud)) * mm
    IN [img EXCEPT !.valid = UpdateMask(@, Not(mask) # 0)]

\* ---- get_temp_difference (l.145-166) ----
Abs(x) == IF x < 0 THEN 0 - x ELSE x

\* l.153-158: every climate record gets its distance in time to the image
func_npv(clim_img, img) ==
    [time_start |-> clim_img.time_start,
     tmax |-> clim_img.tmax,
     time_difference |-> Abs(clim_img.time_start - img.time_start)]

\* l.151, l.158: the records within 3 days of the image, in the order of
\* the collection
nearby_climates(img, clim) ==
    LET nearby == FilterDate(clim, img.time_start - Days(3),
                             img.time_start + Days(3))
    IN [i \in DOMAIN nearby |-> func_npv(nearby[i], img)]

\* ee.ImageCollection.first: the first record in the order of the
\* collection; none in an empty collection
First(c) == IF c = <<>> THEN NoImage ELSE Head(c)

\* l.160-165: the statement nearby_climates.sort('time_difference') builds
\* a sorted collection that is not assigned, and nearby_climates.first()
\* reads the unsorted one.  ST_air_diff in hundredths of a degree.
get_temp_difference(img, clim) ==
    LET nearest == First(nearby_climates(img, clim))
    IN IF nearest = NoImage THEN NoImage
       ELSE [error |-> FALSE,
             time_start |-> img.time_start,
             ST |-> img.ST,
             tmax |-> nearest.tmax,
             ST_air_diff |-> (img.ST - nearest.tmax) * 100 - 27315]

\* l.169-190: the same steps on the NOAA NCEI collection
get_temp_differnce_noancei(img, clim) == get_temp_difference(img, clim)

(***************************************************************************)
(* Actions of basic_processing.                                            *)
(***************************************************************************)
\* the climate collection holds one more record; its order is its own
AddClimate(day) ==
    /\ pc_landsat = "image"
    /\ Len(climatology) < MaxClimate
    /\ \A i \in DOMAIN climatology : climatology[i].time_start # Days(day)
    /\ climatology' =
          Append(climatology, [time_start |-> Days(day), tmax |-> Tmax(day)])
    /\ UNCHANGED <<landsat_image, mask_mask, masked_image, new_img, pc_landsat>>
    /\ UNCHANGED fit_vars
    /\ UNCHANGED filter_vars
    /\ UNCHANGED pheno_vars

LandsatCloudMask457(mm) ==
    /\ pc_landsat = "image"
    /\ mask_mask' = mm
    /\ masked_image' = landsat_cloud_mask_457(landsat_image, mm)
    /\ pc_landsat' = "landsat_cloud_mask_457"
    /\ UNCHANGED <<landsat_image, climatology, new_img>>
    /\ UNCHANGED fit_vars
    /\ UNCHANGED filter_vars
    /\ UNCHANGED pheno_vars

LandsatCloudMask89(mm) ==
    /\ pc_landsat = "image"
    /\ mask_mask' = mm
    /\ masked_image' = landsat_cloud_mask_89(landsat_image, mm)
    /\ pc_landsat' = "landsat_cloud_mask_89"
    /\ UNCHANGED <<landsat_image, climatology, new_img>>
    /\ UNCHANGED fit_vars
    /\ UNCHANGED filter_vars
    /\ UNCHANGED pheno_vars

GetTempDifference ==
    /\ pc_landsat = "image"
    /\ new_img' = get_temp_difference(landsat_image, climatology)
    /\ pc_landsat' = "get_temp_difference"
    /\ UNCHANGED <<landsat_image, climatology, mask_mask, masked_image>>
    /\ UNCHANGED fit_vars
    /\ UNCHANGED filter_vars
    /\ UNCHANGED pheno_vars

GetTempDifferenceNoaNcei ==
    /\ pc_landsat = "image"
    /\ new_img' = get_temp_differnce_noancei(landsat_image, climatology)
    /\ pc_landsat' = "get_temp_differnce_noancei"
    /\ UNCHANGED <<landsat_image, climatology, mask_mask, masked_image>>
    /\ UNCHANGED fit_vars
    /\ UNCHANGED filter_vars
    /\ UNCHANGED pheno_vars

InitLandsat ==
    /\ \E day \in ImageDays, qa \in QAValues, ok \in BOOLEAN,
          st \in SurfaceTemperatures :
          landsat_image = [error |-> FALSE, time_start |-> Days(day),
                   QA_PIXEL |-> qa, valid |-> ok, ST |-> st]
    /\ climatology = <<>>
    /\ mask_mask = 0
    /\ masked_image = NoImage
    /\ new_img = NoImage
    /\ pc_landsat = "image"
    /\ FitIdle
    /\ FilterIdle
    /\ PhenoIdle

NextLandsat ==
    \/ \E day \in ClimateDays : AddClimate(day)
    \/ \E mm \in MaskMasks : LandsatCloudMask457(mm)
    \/ \E mm \in MaskMasks : LandsatCloudMask89(mm)
    \/ GetTempDifference
    \/ GetTempDifferenceNoaNcei

SpecLandsat == InitLandsat /\ [][NextLandsat]_vars

(***************************************************************************)
(* Claims about get_window_fit.  They are stated on the state left by      *)
(* GetWindowFit, in terms of the window, the caller's bounds, the two      *)
(* regressions' outputs, the prediction before rejection and the record.   *)
(***************************************************************************)
FitDone == pc_fit = "done"

\* n: valid observations of the window, the sentinel not counted
NumValid == Cardinality({i \in DOMAIN window : window[i].valid})

\* reductions of the window's valid values
WindowStats == Reduce(window)
WindowMedian == WindowStats.median
WindowStdDev == WindowStats.stdev

QuadraticValue == QuadraticPrediction(quadratic_coeffs, target_time)
LinearValue == LinearPrediction(linear_coeffs, target_time)

\* p is unmasked and greater (less) than q
IsAbove(p, q) == p.mask = 1 /\ q.mask = 1 /\ SignOf(Subtract(p, q), WindowStats) > 0
IsBelow(p, q) == p.mask = 1 /\ q.mask = 1 /\ SignOf(Subtract(p, q), WindowStats) < 0

\* the four triggers of the rejection step, for a prediction p
AboveMax(p) == IsAbove(p, Const(max_value))
BelowMin(p) == IsBelow(p, Const(min_value))
OutlierHigh(p) ==
    IsAbove(p, Add(WindowMedian, MultiplyThreeHalves(WindowStdDev)))
OutlierLow(p) ==
    IsBelow(p, Subtract(WindowMedian, MultiplyThreeHalves(WindowStdDev)))
FlaggedHigh(p) == AboveMax(p) \/ OutlierHigh(p)
FlaggedLow(p) == BelowMin(p) \/ OutlierLow(p)

MedianPlusStdDev == Add(WindowMedian, WindowStdDev)
MedianMinusStdDev == Subtract(WindowMedian, WindowStdDev)

OtherPredictions == {Const(x) : x \in -8 .. 12}

\* what get_window_fit emits for the prediction p on the same window when
\* no physical bound is exceeded (the caller's bounds are p itself), so
\* that only the statistical triggers can fire
EmittedByStatisticsAlone(p) ==
    PredictionFiltered(p, p.a, p.a, Reduce(WithSentinel(window)))

FilterDone == pc_filter = "done"

NumScenes == Len(pheno_in)

\* the scenes in time order
ScenesInTimeOrder == SortByTime(pheno_in, TRUE)

SpansLessThanOnePeriod ==
    \A i, j \in DOMAIN pheno_in :
        pheno_in[j].time_start - pheno_in[i].time_start < PaddingShift

\* the time-sorted augmented series: the scenes and their folded copies
AugmentedSeries == pheno_buffered(pheno_in, num_padding_scenes)

\* position (1-based) of the scene img in the augmented series aug
PositionInAugmented(aug, img) ==
    CHOOSE j \in DOMAIN aug : aug[j].time_start = img.time_start

ValidBefore(aug, j) == {i \in DOMAIN aug : i < j /\ aug[i].valid}
ValidAfter(aug, j) == {i \in DOMAIN aug : i > j /\ aug[i].valid}

SetMax(S) == CHOOSE x \in S : \A y \in S : y <= x
SetMin(S) == CHOOSE x \in S : \A y \in S : x <= y

Observed(img) == [value |-> img.value, DOY |-> img.DOY]

\* the valid observation at the greatest position strictly before the
\* scene img, or the sentinel (value 0, DOY 0)
NearestValidBefore(aug, img) ==
    LET before == ValidBefore(aug, PositionInAugmented(aug, img)) IN
    IF before = {} THEN [value |-> 0, DOY |-> 0]
    ELSE Observed(aug[SetMax(before)])

\* the valid observation at the smallest position strictly after the
\* scene img, or the sentinel (value 0, DOY 365)
NearestValidAfter(aug, img) ==
    LET after == ValidAfter(aug, PositionInAugmented(aug, img)) IN
    IF after = {} THEN [value |-> 0, DOY |-> 4 * PaddingShift]
    ELSE Observed(aug[SetMin(after)])

\* the neighbours the k-th output record was evaluated against
UsedPrevious(k) ==
    [value |-> output_collection[k].previous,
     DOY |-> output_collection[k].previous_DOY]
UsedNext(k) ==
    [value |-> output_collection[k].next, DOY |-> output_collection[k].next_DOY]

NoErrors == \A k \in DOMAIN output_collection : ~output_collection[k].error

\* lo <= f <= hi for a fraction f
InClosedBand(f, lo, hi) == lo * f.den <= f.num /\ f.num <= hi * f.den

\* C5: every observation that is valid on input is masked on output if and
\* only if its residual lies outside the closed band
\* [threshold_low, threshold_high]; a residual equal to a threshold keeps
\* the observation.
C5_MaskedIffOutsideClosedBand ==
    (FilterDone /\ NoErrors) =>
        \A k \in DOMAIN output_collection :
            ScenesInTimeOrder[k].valid =>
                (output_collection[k].valid <=>
                    InClosedBand(output_collection[k].reg_diff,
                                 threshold_low, threshold_high))

\* C6: for a series of N scenes spanning less than one period and
\* 0 <= num_padding_scenes <= N, the previous neighbour used for the k-th
\* scene is the valid observation at the greatest position strictly before
\* that scene in the time-sorted augmented series, or the sentinel
\* (value 0, DOY 0) when there is none; it is never the k-th scene itself.
C6_PreviousIsNearestValidBefore ==
    (FilterDone /\ SpansLessThanOnePeriod /\ num_padding_scenes <= NumScenes) =>
        LET aug == AugmentedSeries
            scenes == ScenesInTimeOrder
        IN /\ NoErrors
           /\ DOMAIN previous_unmasked_scene = 1 .. NumScenes
           /\ DOMAIN output_collection = 1 .. NumScenes
           /\ \A k \in 1 .. NumScenes :
                 /\ previous_unmasked_scene[k] = NearestValidBefore(aug, scenes[k])
                 /\ UsedPrevious(k) = NearestValidBefore(aug, scenes[k])
                 /\ scenes[k].valid => UsedPrevious(k) # Observed(scenes[k])

\* C6 witness: with padding, a scene whose previous neighbour is not the
\* scene just before it (that one is masked) but the valid one before, and
\* a first scene whose previous neighbour is a folded copy (negative DOY)
C6_Witness ==
    /\ FilterDone /\ SpansLessThanOnePeriod
    /\ NumScenes >= 3 /\ num_padding_scenes >= 1
    /\ num_padding_scenes <= NumScenes
    /\ UsedPrevious(1).DOY < 0
    /\ \E k \in 3 .. NumScenes :
          /\ ~ScenesInTimeOrder[k - 1].valid
          /\ ScenesInTimeOrder[k].valid
          /\ ScenesInTimeOrder[k - 2].valid
          /\ UsedPrevious(k) = Observed(ScenesInTimeOrder[k - 2])

\* C7: under the same conditions the next neighbour used for the k-th scene
\* is the valid observation at the smallest position strictly after that
\* scene in the time-sorted augmented series, or the sentinel (value 0,
\* DOY 365) when there is none: the backward scan, read through negative
\* indices, mirrors the forward scan and is aligned to the same scene.
C7_NextIsNearestValidAfter ==
    (FilterDone /\ SpansLessThanOnePeriod /\ num_padding_scenes <= NumScenes) =>
        LET aug == AugmentedSeries
            scenes == ScenesInTimeOrder
        IN /\ NoErrors
           /\ DOMAIN next_unmasked_scene = 1 .. NumScenes
           /\ DOMAIN output_collection = 1 .. NumScenes
           /\ \A k \in 1 .. NumScenes :
                 /\ next_unmasked_scene[k] = NearestValidAfter(aug, scenes[k])
                 /\ UsedNext(k) = NearestValidAfter(aug, scenes[k])
                 /\ scenes[k].valid => UsedNext(k) # Observed(scenes[k])

\* C7 witness: with padding, a scene whose next neighbour is found beyond a
\* masked scene, and a last scene whose next neighbour is a folded copy
\* (DOY beyond the period)
C7_Witness ==
    /\ FilterDone /\ SpansLessThanOnePeriod
    /\ NumScenes >= 3 /\ num_padding_scenes >= 1
    /\ num_padding_scenes <= NumScenes
    /\ UsedNext(NumScenes).value >= 10
    /\ UsedNext(NumScenes).DOY > 4 * PaddingShift
    /\ \E k \in 1 .. NumScenes - 2 :
          /\ ~ScenesInTimeOrder[k + 1].valid
          /\ ScenesInTimeOrder[k].valid
          /\ ScenesInTimeOrder[k + 2].valid
          /\ UsedNext(k) = Observed(ScenesInTimeOrder[k + 2])

\* C8: for N >= 1 scenes spanning less than one period and
\* 0 <= num_padding_scenes <= N, the two trimmed neighbour lists have
\* exactly N entries each and the output has exactly N records, the k-th
\* being the k-th input scene in time order evaluated against the k-th
\* entry of both lists.
C8_ListsAlignedWithScenes ==
    (/\ FilterDone /\ SpansLessThanOnePeriod
     /\ NumScenes >= 1 /\ num_padding_scenes <= NumScenes) =>
        LET scenes == ScenesInTimeOrder
        IN /\ Len(previous_unmasked_scene) = NumScenes
           /\ Len(next_unmasked_scene) = NumScenes
           /\ Len(output_collection) = NumScenes
           /\ \A k \in 1 .. NumScenes :
                 /\ ~output_collection[k].error
                 /\ output_collection[k].time_start = scenes[k].time_start
                 /\ output_collection[k].DOY = scenes[k].DOY
                 /\ output_collection[k].value = scenes[k].value
                 /\ UsedPrevious(k) = previous_unmasked_scene[k]
                 /\ UsedNext(k) = next_unmasked_scene[k]

\* C8 witness: three valid scenes, the full padding, three records
C8_Witness ==
    /\ FilterDone /\ SpansLessThanOnePeriod
    /\ NumScenes = 3 /\ num_padding_scenes = 3
    /\ Len(output_collection) = 3
    /\ Len(previous_unmasked_scene) = 3 /\ Len(next_unmasked_scene) = 3
    /\ \A k \in 1 .. 3 : pheno_in[k].valid

\* C9: an observation whose previous and next neighbours are both sentinels
\* (no valid observation on either side) is never masked by the filter, for
\* any value and any thresholds, and its evaluation raises no error.
C9_NoNeighboursNeverMasked ==
    FilterDone =>
        LET aug == AugmentedSeries
            scenes == ScenesInTimeOrder
        IN \A k \in DOMAIN output_collection :
            (/\ ~output_collection[k].error
             /\ scenes[k].valid
             /\ ValidBefore(aug, PositionInAugmented(aug, scenes[k])) = {}
             /\ ValidAfter(aug, PositionInAugmented(aug, scenes[k])) = {})
                => output_collection[k].valid

\* the valid observations lie on one straight line in time position
OnOneLine ==
    \A i, j, k \in DOMAIN pheno_in :
        (pheno_in[j].value - pheno_in[i].value) * (pheno_in[k].DOY - pheno_in[i].DOY)
            = (pheno_in[k].value - pheno_in[i].value) * (pheno_in[j].DOY - pheno_in[i].DOY)

\* C10: for a series of valid observations whose values lie exactly on one
\* straight line in time position (here: three or more of them) and
\* thresholds with threshold_low < 0 < threshold_high, no observation of
\* the series (first, interior or last) is masked on output.
C10_LinearSeriesUnmasked ==
    (/\ FilterDone /\ NoErrors
     /\ NumScenes >= 3
     /\ \A k \in DOMAIN pheno_in : pheno_in[k].valid
     /\ OnOneLine
     /\ threshold_low < 0 /\ threshold_high > 0)
        => \A k \in DOMAIN output_collection : output_collection[k].valid

(***************************************************************************)
(* Properties of the window filter and of fit_phenology.                   *)
(***************************************************************************)
WindowDone == pc_pheno = "window"
PhenologyDone == pc_pheno = "phenology"

\* the interval of the window: [target - lookback, target + lookahead]
WindowLow == target_date - Days(advance_window_width)
WindowHigh == target_date + Days(following_window_width)

\* number of entries of the window w taken from the image img
TimesSelected(w, img) ==
    Cardinality({j \in DOMAIN w : w[j].time_start = img.time_start})

\* entries of a window that were shifted by addYear / subtractYear
IsWrapped(entry) == entry.time # entry.time_start

\* the image of the collection an entry of the window was taken from
SourceOf(entry) ==
    CHOOSE img \in Range(input_collection) : img.time_start = entry.time_start

\* C11: with wrap_data = false the window (before the image of l.80 is
\* merged) contains exactly once each input observation whose timestamp t
\* satisfies target - lookback <= t <= target + lookahead, both bounds
\* inclusive, and contains no other observation.
C11_WindowIsClosedInterval ==
    (WindowDone /\ ~wrap_data) =>
        /\ \A j \in DOMAIN selected : selected[j] \in Range(input_collection)
        /\ \A img \in Range(input_collection) :
              TimesSelected(selected, img)
                 = IF WindowLow <= img.time_start /\ img.time_start <= WindowHigh
                   THEN 1 ELSE 0

\* the target lies within the lookback width after the start of its year,
\* resp. within the lookahead width before its end
NearYearStart == WindowLow < target_year_start(target_date)
NearYearEnd == WindowHigh > target_year_start(target_date) + CalendarYear

InTargetYear(img) ==
    /\ target_year_start(target_date) <= img.time_start
    /\ img.time_start < target_year_start(target_date) + CalendarYear

\* the observations of the opposite end of the target's year whose
\* timestamp, shifted by one period, falls inside the window interval
OppositeEnd ==
    {img \in Range(input_collection) :
        /\ InTargetYear(img)
        /\ \/ /\ NearYearStart
              /\ WindowLow <= img.time - YearShift
              /\ img.time - YearShift <= WindowHigh
           \/ /\ NearYearEnd
              /\ WindowLow <= img.time + YearShift
              /\ img.time + YearShift <= WindowHigh}

WindowWith(wrap) ==
    Window(input_collection, target_date, advance_window_width,
           following_window_width, wrap)

\* C12: for a target near the start (resp. the end) of its year, the window
\* with wrap_data = true contains every observation of the window with
\* wrap_data = false plus every observation of the opposite end of the year
\* whose shifted timestamp falls inside the window interval; the window with
\* wrap_data = false contains none of those; the two sample counts differ
\* exactly when such observations exist.
C12_WrapAddsOppositeEnd ==
    (WindowDone /\ (NearYearStart \/ NearYearEnd)) =>
        LET wrapped == WindowWith(TRUE)
            plain == WindowWith(FALSE)
        IN /\ selected = WindowWith(wrap_data)
           /\ \A j \in DOMAIN plain : \E i \in DOMAIN wrapped : wrapped[i] = plain[j]
           /\ \A img \in OppositeEnd :
                 /\ \E i \in DOMAIN wrapped :
                       wrapped[i].time_start = img.time_start
                 /\ TimesSelected(plain, img) = 0
           /\ (Len(wrapped) # Len(plain)) <=> (OppositeEnd # {})

\* C13: with wrap_data = true every wrapped entry of the window carries the
\* value of its source observation unchanged and a timestamp shifted by
\* exactly one period (+1 from the start of the target's year, -1 from its
\* end), and the shifted timestamp lies within
\* [target - lookback, target + lookahead]; for a target far from both
\* boundaries of its year no wrapped entry is added.
C13_WrappedEntriesShiftedIntoWindow ==
    (WindowDone /\ wrap_data) =>
        /\ \A j \in DOMAIN selected :
              IsWrapped(selected[j]) =>
                 /\ selected[j].value = SourceOf(selected[j]).value
                 /\ \/ /\ NearYearEnd
                       /\ selected[j].time = SourceOf(selected[j]).time + YearShift
                    \/ /\ NearYearStart
                       /\ selected[j].time = SourceOf(selected[j]).time - YearShift
                 /\ WindowLow <= selected[j].time
                 /\ selected[j].time <= WindowHigh
        /\ (~NearYearStart /\ ~NearYearEnd) =>
              \A j \in DOMAIN selected : ~IsWrapped(selected[j])

(***************************************************************************)
(* Properties of get_window_fit: the merged image, the counts, the fits.   *)
(***************************************************************************)
\* the window handed to the regressions and to the reducers (after l.80)
RegressionWindow == WithSentinel(window)

\* C14: the window handed to the regression and reduction steps is never
\* empty, and it contains the injected sentinel observation if and only if
\* the window filter selected zero observations.
C14_SentinelOnlyInEmptyWindow ==
    FitDone =>
        /\ Len(RegressionWindow) >= 1
        /\ window = <<>> => RegressionWindow = <<Sentinel>>
        /\ window # <<>> => RegressionWindow = window

\* C15: in the record, clear_images is the number of valid observations
\* selected by the window filter and window_size the number of all
\* observations (valid or masked) selected by it.
C15_CountsOfTheWindow ==
    FitDone =>
        /\ record.clear_images = Const(NumValid)
        /\ record.window_size = Const(Len(window))

\* the model chosen by the sample count returned no fit
ChosenQuadraticUnusable == NumValid >= 6 /\ quadratic_coeffs = NoFit
ChosenLinearUnusable ==
    NumValid >= 3 /\ NumValid <= 5 /\ linear_coeffs = NoFit

\* C18: when the model chosen by sample count has no usable fit, the
\* prediction before rejection is that of the next lower-order usable model
\* or the window median; never an undefined value, never a constant
\* unrelated to the data.
C18_FallsBackWhenNoFit ==
    FitDone =>
        /\ ChosenQuadraticUnusable =>
              /\ model_prediction.mask = 1
              /\ IF linear_coeffs # NoFit
                 THEN model_prediction = LinearValue
                 ELSE model_prediction = WindowMedian
        /\ ChosenLinearUnusable =>
              /\ model_prediction.mask = 1
              /\ model_prediction = WindowMedian

\* every valid observation of the window lies within the caller's bounds
ObservationsWithinBounds ==
    \A i \in DOMAIN window :
        window[i].valid =>
            min_value <= window[i].value /\ window[i].value <= max_value

\* C20: for every window with at least one valid observation (here: all of
\* them within the caller's bounds) and min_value <= max_value, the emitted
\* prediction_filtered lies within [min_value, max_value].
C20_EmittedWithinBounds ==
    (FitDone /\ NumValid >= 1 /\ min_value <= max_value
        /\ ObservationsWithinBounds) =>
        /\ record.prediction_filtered.mask = 1
        /\ ~AboveMax(record.prediction_filtered)
        /\ ~BelowMin(record.prediction_filtered)

(***************************************************************************)
(* Properties of fit_phenology.                                            *)
(***************************************************************************)
\* C16: fit_phenology emits exactly num_time_steps records, one per target
\* timestamp, for every num_time_steps >= 1.
C16_OneRecordPerTimeStep ==
    (PhenologyDone /\ num_time_steps >= 1) =>
        /\ Len(phenology) = num_time_steps
        /\ Len(target_dates) = num_time_steps
        /\ \A i \in DOMAIN phenology :
              phenology[i].target_date = target_dates[i]

\* C17: called with num_time_steps = 0, or with max_date not later than
\* min_date, fit_phenology reports a configuration error before any window
\* fit is evaluated: it produces no record from such parameters.
C17_BadConfigurationGivesNoRecord ==
    (PhenologyDone /\ (num_time_steps = 0 \/ max_date <= min_date)) =>
        phenology = <<>>

(***************************************************************************)
(* Properties of check_value: neighbours at the same time position.        *)
(***************************************************************************)
\* C19: when the previous and the next neighbour have the same time
\* position (their DOY difference is zero), evaluation raises no error and
\* the current observation is kept, for any value and any thresholds.
C19_SameNeighbourPositionKeeps ==
    FilterDone =>
        \A k \in DOMAIN output_collection :
            (/\ k \in DOMAIN previous_unmasked_scene
             /\ k \in DOMAIN next_unmasked_scene
             /\ k \in DOMAIN pheno_in
             /\ previous_unmasked_scene[k] # ListError
             /\ next_unmasked_scene[k] # ListError
             /\ previous_unmasked_scene[k].DOY = next_unmasked_scene[k].DOY
             /\ ScenesInTimeOrder[k].valid)
                => /\ ~output_collection[k].error
                   /\ output_collection[k].valid

(***************************************************************************)
(* Properties of the rejection step of get_window_fit.                     *)
(***************************************************************************)
\* the flags of l.159-160 for the prediction of the last call
HighFlag ==
    BadDataHigh(model_prediction, max_value, Reduce(WithSentinel(window)))
LowFlag ==
    BadDataLow(model_prediction, min_value, Reduce(WithSentinel(window)))

IsSet(flag) == flag.mask = 1 /\ flag.a # 0

\* the prediction is defined, within [min_value, max_value] and within
\* [median - 1.5*stdev, median + 1.5*stdev] of the window
Unflagged ==
    /\ model_prediction.mask = 1
    /\ WindowMedian.mask = 1
    /\ ~FlaggedHigh(model_prediction)
    /\ ~FlaggedLow(model_prediction)

C28_NeverFlaggedBothWays ==
    (FitDone /\ min_value <= max_value) => ~(IsSet(HighFlag) /\ IsSet(LowFlag))

MedianWithinBounds ==
    /\ WindowMedian.mask = 1
    /\ min_value <= WindowMedian.a /\ WindowMedian.a <= max_value

\* C28 amended: when the window median lies within [min_value, max_value],
\* a prediction is never flagged both high and low.
C28_NeverFlaggedBothWaysMedianInBounds ==
    (FitDone /\ min_value <= max_value /\ MedianWithinBounds) =>
        ~(IsSet(HighFlag) /\ IsSet(LowFlag))

\* C28 witness: with the median within the bounds, a prediction above
\* max_value is flagged high and not low
C28_Witness ==
    /\ FitDone /\ MedianWithinBounds
    /\ NumValid >= 3
    /\ AboveMax(model_prediction)
    /\ IsSet(HighFlag) /\ ~IsSet(LowFlag)

\* C30: for every window with at least two valid observations, the emitted
\* prediction_filtered lies within [median - 1.5*stdev, median + 1.5*stdev]
\* of the window's valid values, whichever model was selected and whichever
\* flags were raised.
C30_EmittedWithinStatisticalBand ==
    (FitDone /\ NumValid >= 2) =>
        /\ record.prediction_filtered.mask = 1
        /\ ~OutlierHigh(record.prediction_filtered)
        /\ ~OutlierLow(record.prediction_filtered)

\* C30 witness: a prediction above median + 1.5*stdev, in a window whose
\* standard deviation is not zero, is emitted inside the band
C30_Witness ==
    /\ FitDone /\ NumValid >= 3
    /\ WindowStats.D > 0
    /\ OutlierHigh(model_prediction)
    /\ record.prediction_filtered.mask = 1
    /\ ~OutlierHigh(record.prediction_filtered)
    /\ ~OutlierLow(record.prediction_filtered)

(***************************************************************************)
(* Properties of the target dates of fit_phenology.                        *)
(***************************************************************************)
\* the target dates start at min_date, are equally spaced and strictly
\* increasing, and the last one does not exceed max_date
EvenlySpacedTargets ==
    /\ target_dates # <<>>
    /\ target_dates[1] = min_date
    /\ target_dates[Len(target_dates)] <= max_date
    /\ \A i \in 1 .. Len(target_dates) - 1 :
          /\ target_dates[i] < target_dates[i + 1]
          /\ target_dates[i + 1] - target_dates[i]
                = target_dates[2] - target_dates[1]

\* C24 as stated: for every num_time_steps >= 1 and every min_date <
\* max_date (whole days), the target timestamps form a strictly increasing,
\* equally spaced sequence that starts at min_date and whose last element
\* does not exceed max_date; no two target timestamps coincide.
C24_TargetsStrictlyIncreasing ==
    (PhenologyDone /\ num_time_steps >= 1 /\ min_date < max_date)
        => EvenlySpacedTargets

\* C24 amended: the same, for max_date at least num_time_steps whole days
\* after min_date.
C24_TargetsStrictlyIncreasingWhenDaysSuffice ==
    (PhenologyDone /\ num_time_steps >= 1
        /\ max_date - min_date >= Days(num_time_steps))
        => EvenlySpacedTargets

\* C24 witness: three steps over ten days, spaced by the three whole days
\* that fit, the last target before max_date
C24_Witness ==
    /\ PhenologyDone
    /\ num_time_steps = 3 /\ min_date = 0 /\ max_date = Days(10)
    /\ target_dates = <<0, Days(3), Days(6), Days(9)>>
    /\ EvenlySpacedTargets

(***************************************************************************)
(* Further properties of cloud_temporal_filter.                            *)
(***************************************************************************)
\* C22: for every series of N scenes and 0 <= num_padding_scenes = P <= N,
\* whatever its time span, the time-sorted augmented series has the P
\* back-shifted trailing scenes first, then the N original scenes in their
\* original order, then the P forward-shifted leading scenes, so that
\* trimming P entries from each end by index recovers the original scenes.
C22_AugmentedSeriesLayout ==
    (FilterDone /\ num_padding_scenes <= NumScenes) =>
        LET aug == AugmentedSeries
            scenes == ScenesInTimeOrder
            P == num_padding_scenes
            N == NumScenes
        IN /\ Len(aug) = N + 2 * P
           /\ \A i \in 1 .. P : aug[i] = buffer_end(scenes[N - P + i])
           /\ \A k \in 1 .. N : aug[P + k] = scenes[k]
           /\ \A i \in 1 .. P : aug[P + N + i] = buffer_start(scenes[i])

\* C23: when num_padding_scenes exceeds the number N of scenes the filter
\* still returns exactly N records, each evaluated against a defined pair
\* of neighbours: the trimmed lists have N entries, no lookup reads outside
\* them, and the k-th scene is paired with its own neighbours.
C23_OversizedPaddingStillAligned ==
    (FilterDone /\ num_padding_scenes > NumScenes) =>
        LET aug == AugmentedSeries
            scenes == ScenesInTimeOrder
        IN /\ Len(output_collection) = NumScenes
           /\ Len(previous_unmasked_scene) = NumScenes
           /\ Len(next_unmasked_scene) = NumScenes
           /\ NoErrors
           /\ \A k \in 1 .. NumScenes :
                 /\ UsedPrevious(k) = NearestValidBefore(aug, scenes[k])
                 /\ UsedNext(k) = NearestValidAfter(aug, scenes[k])

SixDiagnosticBands ==
    {"reg_diff", "reg_expected", "previous", "previous_DOY", "next", "next_DOY"}

\* C26: the filter only ever clears validity: every observation that is
\* invalid on input is invalid on output, every observation's band value
\* and time position are unchanged, and a record gains the six diagnostic
\* bands and nothing else.
C26_OnlyClearsValidity ==
    FilterDone =>
        LET scenes == ScenesInTimeOrder IN
        \A k \in DOMAIN output_collection :
            ~output_collection[k].error =>
                /\ k \in DOMAIN scenes
                /\ ~scenes[k].valid => ~output_collection[k].valid
                /\ output_collection[k].value = scenes[k].value
                /\ output_collection[k].DOY = scenes[k].DOY
                /\ output_collection[k].time_start = scenes[k].time_start
                /\ (DOMAIN output_collection[k]) \ {"error"}
                      = (DOMAIN scenes[k]) \cup SixDiagnosticBands

\* C26 witness: a run that clears the validity of a valid observation,
\* keeps another valid one, and leaves an invalid one invalid although the
\* test of its (unmasked, 0) value against the value both its neighbours
\* share passes the thresholds
C26_Witness ==
    /\ FilterDone /\ NoErrors /\ NumScenes = 3
    /\ \E i, j, k \in 1 .. NumScenes :
          /\ ScenesInTimeOrder[i].valid /\ ~output_collection[i].valid
          /\ ScenesInTimeOrder[j].valid /\ output_collection[j].valid
          /\ ~ScenesInTimeOrder[k].valid /\ ~output_collection[k].valid
          /\ UsedPrevious(k).value = UsedNext(k).value
          /\ threshold_low < 0 - UsedPrevious(k).value
          /\ threshold_high > 0 - UsedPrevious(k).value

\* the neighbour is an observation of the augmented series, not a filler
RealObservation(aug, neighbour) ==
    \E i \in DOMAIN aug : aug[i].valid /\ Observed(aug[i]) = neighbour

\* C29: for every time-sorted series, also one that crosses a year boundary
\* or spans several years, and every observation whose previous and next
\* neighbours are both real observations,
\* previous.DOY <= current.DOY <= next.DOY and previous.DOY < next.DOY.
C29_NeighbourPositionsOrdered ==
    (FilterDone /\ NoErrors /\ num_padding_scenes <= NumScenes) =>
        LET aug == AugmentedSeries IN
        \A k \in DOMAIN output_collection :
            (RealObservation(aug, UsedPrevious(k))
                /\ RealObservation(aug, UsedNext(k))) =>
                /\ UsedPrevious(k).DOY <= output_collection[k].DOY
                /\ output_collection[k].DOY <= UsedNext(k).DOY
                /\ UsedPrevious(k).DOY < UsedNext(k).DOY

(***************************************************************************)
(* Properties of basic_processing.                                         *)
(***************************************************************************)
BitSet(qa, n) == (qa \div 2 ^ n) % 2 = 1

MaskDone457 == pc_landsat = "landsat_cloud_mask_457"
MaskDone89 == pc_landsat = "landsat_cloud_mask_89"

\* the call cleared the validity of a pixel that was valid
PixelMasked == landsat_image.valid /\ ~masked_image.valid

\* C21: landsat_cloud_mask_457 masks a pixel if and only if mask_mask is
\* non-zero and at least one of QA_PIXEL bits 1, 3 or 4 is set;
\* landsat_cloud_mask_89 does the same with bit 2 added; nothing but the
\* validity changes, and with mask_mask = 0 no validity changes.
C21_MaskedIffCloudBitSet ==
    /\ MaskDone457 =>
          /\ landsat_image.valid =>
                (PixelMasked <=>
                    (mask_mask # 0
                        /\ \E n \in {1, 3, 4} : BitSet(landsat_image.QA_PIXEL, n)))
          /\ ~landsat_image.valid => ~masked_image.valid
          /\ [masked_image EXCEPT !.valid = landsat_image.valid] = landsat_image
          /\ mask_mask = 0 => masked_image = landsat_image
    /\ MaskDone89 =>
          /\ landsat_image.valid =>
                (PixelMasked <=>
                    (mask_mask # 0
                        /\ \E n \in {1, 2, 3, 4} : BitSet(landsat_image.QA_PIXEL, n)))
          /\ ~landsat_image.valid => ~masked_image.valid
          /\ [masked_image EXCEPT !.valid = landsat_image.valid] = landsat_image
          /\ mask_mask = 0 => masked_image = landsat_image

\* C21 witness: the 8/9 mask clears a valid pixel whose only set bit among
\* bits 1 to 4 is the cirrus bit
C21_Witness ==
    /\ MaskDone89 /\ mask_mask # 0
    /\ BitSet(landsat_image.QA_PIXEL, 2) /\ BitSet(landsat_image.QA_PIXEL, 0)
    /\ \A n \in {1, 3, 4} : ~BitSet(landsat_image.QA_PIXEL, n)
    /\ PixelMasked

TempDone ==
    pc_landsat \in {"get_temp_difference", "get_temp_differnce_noancei"}

\* the climate records dated within 3 days of the image
WithinThreeDays ==
    {i \in DOMAIN climatology :
        /\ landsat_image.time_start - Days(3) <= climatology[i].time_start
        /\ climatology[i].time_start < landsat_image.time_start + Days(3)}

\* C25: get_temp_difference and get_temp_differnce_noancei take the air
\* temperature from the climate record, among those dated within 3 days of
\* the image, whose timestamp is nearest to the image's, for every ordering
\* of the climate collection.
C25_NearestClimateRecordUsed ==
    (TempDone /\ WithinThreeDays # {}) =>
        /\ ~new_img.error
        /\ \E i \in WithinThreeDays :
              /\ \A j \in WithinThreeDays :
                    Abs(climatology[i].time_start - landsat_image.time_start)
                       <= Abs(climatology[j].time_start - landsat_image.time_start)
              /\ new_img.tmax = climatology[i].tmax

====
